---- MODULE Spec2Model ----
(***************************************************************************)
(* The authenticated-request core of src/src/index.js (v2 variant, lines   *)
(* 24-145): the process-wide sessionToken, authenticate() and              *)
(* makeCaproverRequest() with its 401 branch and recursive self-call, and  *)
(* the response the app route handlers (lines 232-438) send afterwards.    *)
(*                                                                         *)
(* Node runs one continuation at a time, so every action below is the      *)
(* code between two awaits.  An upstream answer (a settled axios promise)  *)
(* is a step of the environment; the continuation that consumes it is a    *)
(* step of the program.                                                    *)
(***************************************************************************)
EXTENDS Integers, Sequences, FiniteSets

\* Number of makeCaproverRequest invocations (inbound requests) in a run.
NumCalls == 2

\* Cap on the depth of the self-call at line 80 explored by the model.
MaxDepth == 3

Procs == 1..NumCalls

\* sessionToken = null (line 24); also an absent data.data.token (line 129).
Null == "null"

\* Tokens the login endpoint may hand out.
Tokens == {"abc", "xyz"}

\* An axios promise that has not settled yet.
Pending == -1

\* error.response is undefined: the request got no HTTP response
\* (connection failure, DNS failure, timeout), or the error is a plain Error.
NoResponse == 0

\* Statuses the upstream may answer a dispatched call with (axios follows
\* redirects itself; 304 is a 3xx status that reaches validateStatus).
DispatchStatuses == {200, 304, 401, 404, 500}

\* What may come back from a dispatch: a status, or no response at all.
DispatchReplies == DispatchStatuses \cup {NoResponse}

\* What may come back from POST /api/v2/login: 200 with or without
\* data.data.token, a rejection, or no response at all.
LoginReplies ==
    {[status |-> 200, token |-> t] : t \in Tokens \cup {Null}}
        \cup {[status |-> s, token |-> Null] : s \in {401, 500, NoResponse}}

PendingLogin == [status |-> Pending, token |-> Null]

VARIABLES
    sessionToken,   \* line 24
    pc,             \* where each invocation stands
    depth,          \* nesting of the self-call at line 80
    logins,         \* per invocation: the authenticate() calls it made
    disp,           \* per invocation: the dispatches (line 53) it made
    result,         \* what the invocation gave its caller
    error,          \* the error it threw, when result is "Failure"
    startToken,     \* sessionToken when the invocation was entered
    latestLogin,    \* history: token of the latest login that succeeded
    response        \* what the route handler sent to the inbound request

vars == <<sessionToken, pc, depth, logins, disp, result, error, startToken,
          latestLogin, response>>

NoError == [origin |-> "none", status |-> NoResponse]

----------------------------------------------------------------------------
\* axios settles a request as resolved iff validateStatus(status).

\* Variant: the validateStatus option is left out of the dispatch, so that
\* axios rejects every status outside 2xx, 401 included.
validateStatus_omitted(status) == status >= 200 /\ status < 300

\* Lines 58-60: the validateStatus passed for dispatches.
validateStatus(status) == status >= 200 /\ status < 500

\* Line 116: authenticate passes no validateStatus, axios' default applies.
defaultValidateStatus(status) == status >= 200 /\ status < 300

\* Line 53: TRUE iff the awaited dispatch resolves (gives a response object).
DispatchResolves(reply) == reply # NoResponse /\ validateStatus(reply)

\* Lines 53-71: the error.response?.status of what the try block throws
\* for a settled dispatch; NoResponse when it is undefined.  A resolved
\* response with status >= 400 is rethrown as a plain Error (line 70), which
\* has no response; a rejected one is axios' error, which carries it.
DispatchErrorStatus(reply) ==
    IF DispatchResolves(reply) THEN NoResponse ELSE reply

\* Lines 53-73: TRUE iff the try block returns response.data.
DispatchReturns(reply) == DispatchResolves(reply) /\ ~(reply >= 400)

\* Variant: an error without a response is also taken for an auth failure.
IsUnauthorized_orNoResponse(status) == status = NoResponse \/ status = 401

\* Variant: every error status is taken for an auth failure.
IsUnauthorized_anyErrorStatus(status) == status >= 400

\* Line 75: the condition of the re-authentication branch.
IsUnauthorized(status) == status = 401

\* Lines 116-135: TRUE iff authenticate() stores a token and returns.
LoginSucceeds(reply) ==
    /\ reply.status # NoResponse
    /\ defaultValidateStatus(reply.status)
    /\ reply.token # Null

\* Lines 116-144: the error.response?.status of what authenticate() throws.
\* A 2xx answer without a token throws a plain Error (line 134).
LoginErrorStatus(reply) ==
    IF reply.status # NoResponse /\ defaultValidateStatus(reply.status)
    THEN NoResponse
    ELSE reply.status

\* Variant: line 129 is left out and data.data.token is stored as it comes.
TokenAfterAuthenticate_unchecked(cur, reply) ==
    IF reply.status # NoResponse /\ defaultValidateStatus(reply.status)
    THEN reply.token
    ELSE cur

\* Variant: the token is stored only while none is held
\* (sessionToken = sessionToken || token).
TokenAfterAuthenticate_keepFirst(cur, reply) ==
    IF LoginSucceeds(reply) /\ cur = Null THEN reply.token ELSE cur

\* Lines 129-135: sessionToken once authenticate() has handled the answer,
\* cur being its value before.
TokenAfterAuthenticate(cur, reply) ==
    IF LoginSucceeds(reply) THEN reply.token ELSE cur

----------------------------------------------------------------------------
\* The app routes that call makeCaproverRequest (lines 232-438).
Routes ==
    {"POST /api/apps", "GET /api/apps", "GET /api/apps/:appName",
     "PUT /api/apps/:appName", "DELETE /api/apps/:appName",
     "DELETE /api/apps/:appName/volumes", "POST /api/apps/:appName/stop",
     "POST /api/apps/:appName/scale", "POST /api/apps/:appName/domains",
     "POST /api/apps/:appName/ssl", "POST /api/one-click-apps"}

\* Lines 276, 295, 313, 331, 349, 369, 389, 409: the catch block starts by
\* logging `${appName}`, a const declared inside the try block and not in
\* scope there, so evaluating it throws a ReferenceError out of the handler.
CatchReadsAppName(rt) ==
    rt \in {"GET /api/apps/:appName", "PUT /api/apps/:appName",
            "DELETE /api/apps/:appName", "DELETE /api/apps/:appName/volumes",
            "POST /api/apps/:appName/stop", "POST /api/apps/:appName/scale",
            "POST /api/apps/:appName/domains", "POST /api/apps/:appName/ssl"}

\* Lines 232-247 and 270-282, likewise the other routes: res.json(response)
\* when the awaited makeCaproverRequest returns, res.status(500).json(...)
\* when it throws, unless the catch block itself throws before that line.
HandlerResponse(rt, res) ==
    IF res = "Success" THEN "json"
    ELSE IF CatchReadsAppName(rt) THEN "unhandled"
    ELSE "error500"

\* The handler's continuation runs right after makeCaproverRequest settles.
\* The route plays no part before this point, so it is drawn here.
Respond(i, res) ==
    \E sent \in {HandlerResponse(rt, res) : rt \in Routes} :
        response' = [response EXCEPT ![i] = sent]

Init ==
    /\ response = [i \in Procs |-> "none"]
    /\ latestLogin = Null
    /\ sessionToken = Null
    /\ pc = [i \in Procs |-> "idle"]
    /\ depth = [i \in Procs |-> 0]
    /\ logins = [i \in Procs |-> <<>>]
    /\ disp = [i \in Procs |-> <<>>]
    /\ result = [i \in Procs |-> "none"]
    /\ error = [i \in Procs |-> NoError]
    /\ startToken = [i \in Procs |-> Null]

\* Lines 26-36: getAuthHeaders throws when there is no token.
getAuthHeadersThrows(tok) == tok = Null

\* Lines 75-95, for an error thrown inside the try block: either call
\* authenticate() again (line 78) or log and rethrow (line 95).
Catch(i, origin, status) ==
    IF IsUnauthorized(status)
    THEN /\ pc' = [pc EXCEPT ![i] = "awaitRelogin"]
         /\ logins' = [logins EXCEPT ![i] =
                Append(@, [kind |-> "refresh", reply |-> PendingLogin])]
         /\ UNCHANGED <<result, error, response>>
    ELSE /\ pc' = [pc EXCEPT ![i] = "done"]
         /\ result' = [result EXCEPT ![i] = "Failure"]
         /\ error' = [error EXCEPT ![i] = [origin |-> origin, status |-> status]]
         /\ Respond(i, "Failure")
         /\ UNCHANGED logins

\* Lines 47-61: build the headers from the token held now and send the call.
SendDispatch(i, tok) ==
    IF getAuthHeadersThrows(tok)
    THEN /\ Catch(i, "headers", NoResponse)
         /\ UNCHANGED disp
    ELSE /\ pc' = [pc EXCEPT ![i] = "awaitDispatch"]
         /\ disp' = [disp EXCEPT ![i] =
                Append(@, [token |-> tok, loginsBefore |-> Len(logins[i]),
                           reply |-> Pending])]
         /\ UNCHANGED <<logins, result, error, response>>

\* Lines 39-61: entry of makeCaproverRequest with sessionToken = tok, up to
\* its first await.  No route passes the login endpoint, so the second
\* conjunct of line 42 is always true.
Enter(i, tok) ==
    IF tok = Null
    THEN /\ pc' = [pc EXCEPT ![i] = "awaitLogin"]
         /\ logins' = [logins EXCEPT ![i] =
                Append(@, [kind |-> "initial", reply |-> PendingLogin])]
         /\ UNCHANGED <<disp, result, error, response>>
    ELSE SendDispatch(i, tok)

\* A route handler is entered and calls makeCaproverRequest (e.g. line 273).
Call(i) ==
    /\ pc[i] = "idle"
    /\ startToken' = [startToken EXCEPT ![i] = sessionToken]
    /\ Enter(i, sessionToken)
    /\ UNCHANGED <<sessionToken, depth, latestLogin>>

\* The upstream answers the login request of line 116.
LoginAnswered(i, r) ==
    /\ pc[i] \in {"awaitLogin", "awaitRelogin"}
    /\ logins[i][Len(logins[i])].reply = PendingLogin
    /\ logins' = [logins EXCEPT ![i][Len(logins[i])].reply = r]
    /\ UNCHANGED <<sessionToken, pc, depth, disp, result, error, startToken,
                   latestLogin, response>>

\* The upstream answers the dispatched request of line 53.
DispatchAnswered(i, r) ==
    /\ pc[i] = "awaitDispatch"
    /\ disp[i][Len(disp[i])].reply = Pending
    /\ disp' = [disp EXCEPT ![i][Len(disp[i])].reply = r]
    /\ UNCHANGED <<sessionToken, pc, depth, logins, result, error, startToken,
                   latestLogin, response>>

\* Lines 44-61 and 74-96: authenticate() of line 44 has settled.
AfterLogin(i) ==
    /\ pc[i] = "awaitLogin"
    /\ LET r == logins[i][Len(logins[i])].reply IN
        /\ r # PendingLogin
        /\ sessionToken' = TokenAfterAuthenticate(sessionToken, r)
        /\ IF LoginSucceeds(r)
           THEN /\ latestLogin' = r.token
                /\ SendDispatch(i, sessionToken')
           ELSE /\ Catch(i, "login", LoginErrorStatus(r))
                /\ UNCHANGED <<disp, latestLogin>>
    /\ UNCHANGED <<depth, startToken>>

\* Lines 62-96: the dispatch of line 53 has settled.
AfterDispatch(i) ==
    /\ pc[i] = "awaitDispatch"
    /\ LET r == disp[i][Len(disp[i])].reply IN
        /\ r # Pending
        /\ IF DispatchReturns(r)
           THEN /\ pc' = [pc EXCEPT ![i] = "done"]
                /\ result' = [result EXCEPT ![i] = "Success"]
                /\ Respond(i, "Success")
                /\ UNCHANGED <<logins, error>>
           ELSE Catch(i, "dispatch", DispatchErrorStatus(r))
    /\ UNCHANGED <<sessionToken, depth, disp, startToken, latestLogin>>

\* Lines 78-80: authenticate() of line 78 has settled.  Its error leaves the
\* catch block uncaught; on success the function calls itself.
AfterRelogin(i) ==
    /\ pc[i] = "awaitRelogin"
    /\ LET r == logins[i][Len(logins[i])].reply IN
        /\ r # PendingLogin
        /\ sessionToken' = TokenAfterAuthenticate(sessionToken, r)
        /\ IF LoginSucceeds(r)
           THEN /\ depth[i] < MaxDepth
                /\ latestLogin' = r.token
                /\ depth' = [depth EXCEPT ![i] = @ + 1]
                /\ Enter(i, sessionToken')
           ELSE /\ pc' = [pc EXCEPT ![i] = "done"]
                /\ result' = [result EXCEPT ![i] = "Failure"]
                /\ error' = [error EXCEPT ![i] =
                        [origin |-> "login", status |-> LoginErrorStatus(r)]]
                /\ Respond(i, "Failure")
                /\ UNCHANGED <<depth, logins, disp, latestLogin>>
    /\ UNCHANGED startToken

Next ==
    \/ \E i \in Procs : Call(i)
    \/ \E i \in Procs : \E r \in LoginReplies : LoginAnswered(i, r)
    \/ \E i \in Procs : \E r \in DispatchReplies : DispatchAnswered(i, r)
    \/ \E i \in Procs : AfterLogin(i)
    \/ \E i \in Procs : AfterDispatch(i)
    \/ \E i \in Procs : AfterRelogin(i)

Spec == Init /\ [][Next]_vars

\* The event loop runs every continuation whose promise has settled; nothing
\* obliges the upstream to answer.
FairSpec ==
    /\ Spec
    /\ \A i \in Procs :
        /\ WF_vars(AfterLogin(i))
        /\ WF_vars(AfterDispatch(i))
        /\ WF_vars(AfterRelogin(i))

----------------------------------------------------------------------------
\* Vocabulary of the properties.

Done(i) == pc[i] = "done"

\* The authenticate() calls of line 78 that invocation i has made.
Refreshes(i) == {k \in 1..Len(logins[i]) : logins[i][k].kind = "refresh"}

\* A login request is on the wire.
LoginInFlight(i) ==
    /\ pc[i] \in {"awaitLogin", "awaitRelogin"}
    /\ logins[i][Len(logins[i])].reply = PendingLogin

\* The k-th dispatch of i has been answered and its continuation has run.
Handled(i, k) ==
    /\ k \in 1..Len(disp[i])
    /\ disp[i][k].reply # Pending
    /\ (k < Len(disp[i]) \/ pc[i] # "awaitDispatch")

\* The k-th dispatch of i was followed by a login of the same invocation.
LoginFollows(i, k) == Len(logins[i]) > disp[i][k].loginsBefore

\* C1: a finished invocation whose first dispatch was answered 401, and none
\* of whose later dispatches was answered with anything but a success (the
\* upstream would accept the call after the re-login), returned Success after
\* exactly 2 dispatches with exactly 1 login between them.
C1_RetrySucceeds ==
    \A i \in Procs :
        (/\ Done(i)
         /\ Len(disp[i]) >= 1
         /\ disp[i][1].reply = 401
         /\ \A k \in 2..Len(disp[i]) : DispatchReturns(disp[i][k].reply))
        => /\ result[i] = "Success"
           /\ Len(disp[i]) = 2
           /\ disp[i][2].loginsBefore = disp[i][1].loginsBefore + 1
           /\ Cardinality(Refreshes(i)) = 1

\* C2: a finished invocation all of whose dispatches were answered 401 failed
\* after exactly 2 dispatches and exactly 1 refresh login.
C2_RetryFailsBounded ==
    \A i \in Procs :
        (/\ Done(i)
         /\ Len(disp[i]) >= 1
         /\ \A k \in 1..Len(disp[i]) : disp[i][k].reply = 401)
        => /\ result[i] = "Failure"
           /\ Len(disp[i]) = 2
           /\ Cardinality(Refreshes(i)) = 1

\* C3: in every reachable state an invocation has made at most 2 dispatches
\* and at most 1 re-authentication, and its self-call is at most 1 deep.
C3_BoundedRetry ==
    \A i \in Procs :
        /\ Len(disp[i]) <= 2
        /\ Cardinality(Refreshes(i)) <= 1
        /\ depth[i] <= 1

\* C3 witness: an invocation re-authenticated, called itself, dispatched and
\* finished, after another invocation had stored a token.
C3_Witness ==
    \E i \in Procs :
        /\ Done(i)
        /\ depth[i] = 1
        /\ Cardinality(Refreshes(i)) = 1
        /\ Len(disp[i]) = 1
        /\ \E j \in Procs \ {i} : pc[j] # "idle"

\* C4: at most one login request is in flight at any moment.
C4_SingleFlightLogin ==
    Cardinality({i \in Procs : LoginInFlight(i)}) <= 1

\* C5: an invocation entered with no stored token makes exactly one login
\* before its first dispatch, and makes no dispatch when that login fails.
C5_OneLoginBeforeDispatch ==
    \A i \in Procs :
        (pc[i] # "idle" /\ startToken[i] = Null)
        => /\ Len(disp[i]) >= 1 => disp[i][1].loginsBefore = 1
           /\ (/\ Len(logins[i]) >= 1
               /\ logins[i][1].reply # PendingLogin
               /\ ~LoginSucceeds(logins[i][1].reply))
              => disp[i] = <<>>

\* C6: when the login of the initial acquisition fails, the invocation makes
\* no second login and no dispatch, and fails with the login's error.
C6_InitialLoginFailureTerminal ==
    \A i \in Procs :
        (/\ Len(logins[i]) >= 1
         /\ logins[i][1].kind = "initial"
         /\ logins[i][1].reply # PendingLogin
         /\ ~LoginSucceeds(logins[i][1].reply))
        => /\ Len(logins[i]) = 1
           /\ disp[i] = <<>>
           /\ Done(i) => /\ result[i] = "Failure"
                         /\ error[i].origin = "login"

\* C7: a dispatch that gets no response is the invocation's last dispatch and
\* is followed by no login; entered with a stored token, the invocation makes
\* exactly 1 dispatch and 0 logins and fails with the dispatch's error.
C7_TransportErrorNoLogin ==
    \A i \in Procs :
        \A k \in 1..Len(disp[i]) :
            disp[i][k].reply = NoResponse
            => /\ k = Len(disp[i])
               /\ ~LoginFollows(i, k)
               /\ startToken[i] # Null => (k = 1 /\ logins[i] = <<>>)
               /\ Done(i) => /\ result[i] = "Failure"
                             /\ error[i].origin = "dispatch"

\* C7 witness: an invocation entered with a stored token, got no response to
\* its dispatch and has failed.
C7_Witness ==
    \E i \in Procs :
        /\ Done(i)
        /\ startToken[i] # Null
        /\ Len(disp[i]) = 1
        /\ disp[i][1].reply = NoResponse
        /\ result[i] = "Failure"

\* A dispatch answered with an error status other than 401.
OtherErrorStatus(r) == r >= 400 /\ r # 401

C8_NoLoginAfterError ==
    \A i \in Procs :
        \A k \in 1..Len(disp[i]) :
            OtherErrorStatus(disp[i][k].reply)
            => /\ k = Len(disp[i])
               /\ ~LoginFollows(i, k)
               /\ startToken[i] # Null => (k = 1 /\ logins[i] = <<>>)
               /\ Done(i) => /\ result[i] = "Failure"
                             /\ error[i].origin = "dispatch"

C8_TokenKept ==
    \A i \in Procs :
        (/\ pc[i] = "awaitDispatch"
         /\ OtherErrorStatus(disp[i][Len(disp[i])].reply)
         /\ pc'[i] # "awaitDispatch")
        => sessionToken' = sessionToken

\* C8: a dispatch answered 404 or 500 is the invocation's only further step:
\* it fails with the dispatch's error after that one attempt, makes no login
\* (none at all when entered with a stored token), and the step that handles
\* the answer leaves sessionToken as it was.
C8_ErrorStatusPassThrough == []C8_NoLoginAfterError /\ [][C8_TokenKept]_vars

\* C8 witness: an invocation entered with a stored token, was answered 500
\* and has failed, while the stored token is still the one it attached.
C8_Witness ==
    \E i \in Procs :
        /\ Done(i)
        /\ startToken[i] # Null
        /\ Len(disp[i]) = 1
        /\ disp[i][1].reply = 500
        /\ result[i] = "Failure"
        /\ sessionToken = disp[i][1].token

\* C9: every handled dispatch answered with status s ended in Success iff
\* s < 300, started the refresh-and-retry path iff s = 401, and was an error
\* returned to the caller otherwise; no status in 300..399 is a Success.
C9_Classification ==
    \A i \in Procs :
        \A k \in 1..Len(disp[i]) :
            (Handled(i, k) /\ disp[i][k].reply # NoResponse)
            => LET s == disp[i][k].reply
                   success == k = Len(disp[i]) /\ Done(i) /\ result[i] = "Success"
               IN /\ success <=> s < 300
                  /\ LoginFollows(i, k) <=> s = 401
                  /\ (s >= 300 /\ s # 401)
                     => k = Len(disp[i]) /\ Done(i) /\ result[i] = "Failure"

\* C10: every invocation that was entered eventually completes.
C10_EventuallyCompletes ==
    \A i \in Procs : (pc[i] # "idle") ~> Done(i)

\* The continuation of a login of invocation i runs in this step.
LoginHandled(i) ==
    /\ pc[i] \in {"awaitLogin", "awaitRelogin"}
    /\ pc'[i] # pc[i]

\* A login answer with status 2xx that carries a token (line 129).
WellFormed(r) == r.status >= 200 /\ r.status < 300 /\ r.token \in Tokens

C11_Step ==
    /\ sessionToken' # sessionToken
       => \E i \in Procs :
            /\ LoginHandled(i)
            /\ WellFormed(logins[i][Len(logins[i])].reply)
            /\ sessionToken' = logins[i][Len(logins[i])].reply.token
    /\ \A i \in Procs :
        LoginHandled(i)
        => LET r == logins[i][Len(logins[i])].reply IN
            IF WellFormed(r)
            THEN sessionToken' = r.token
            ELSE /\ sessionToken' = sessionToken
                 /\ disp'[i] = disp[i]
                 /\ pc'[i] \in {"done", "awaitRelogin"}
                 /\ pc'[i] = "done" => /\ result'[i] = "Failure"
                                       /\ error'[i].origin = "login"

\* C11: sessionToken changes only in a step that handles a login answer of
\* status 2xx carrying a token, and then equals that token; a step that
\* handles any other login answer throws (the invocation fails, or its catch
\* block takes the error) and leaves sessionToken as it was.
C11_OnlyLoginWrites == [][C11_Step]_vars

\* C11 witness: one invocation stored the token of its login, another one's
\* login came back 2xx without a token and that invocation failed, and the
\* stored token is the one the login carried.
C11_Witness ==
    \E i, j \in Procs :
        /\ i # j
        /\ Done(i)
        /\ result[i] = "Failure"
        /\ error[i].origin = "login"
        /\ logins[i][Len(logins[i])].reply = [status |-> 200, token |-> Null]
        /\ Len(logins[j]) >= 1
        /\ WellFormed(logins[j][Len(logins[j])].reply)
        /\ pc[j] \notin {"awaitLogin", "awaitRelogin"}
        /\ sessionToken = logins[j][Len(logins[j])].reply.token

\* The token a dispatch attaches is the one of the invocation's own latest
\* login when it made one, and is never absent.
C12_AttachedToken ==
    \A i \in Procs :
        \A k \in 1..Len(disp[i]) :
            /\ disp[i][k].token \in Tokens
            /\ disp[i][k].loginsBefore >= 1
               => disp[i][k].token =
                      logins[i][disp[i][k].loginsBefore].reply.token

C12_Send ==
    \A i \in Procs :
        Len(disp'[i]) > Len(disp[i])
        => disp'[i][Len(disp'[i])].token = latestLogin'

C13_EveryRequestAnswered ==
    \A i \in Procs :
        Done(i) => /\ result[i] = "Success" => response[i] = "json"
                   /\ result[i] = "Failure" => response[i] = "error500"

TypeOK ==
    /\ sessionToken \in Tokens \cup {Null}
    /\ pc \in [Procs -> {"idle", "awaitLogin", "awaitDispatch",
                         "awaitRelogin", "done"}]
    /\ depth \in [Procs -> 0..MaxDepth]
    /\ result \in [Procs -> {"none", "Success", "Failure"}]
    /\ response \in [Procs -> {"none", "json", "error500", "unhandled"}]
    /\ latestLogin \in Tokens \cup {Null}
====
